---- MODULE Spec2Model ----
(***************************************************************************)
(* Meadowlark message relay: the Hub event loop (internal/server/hub.go),  *)
(* the per-connection read and write pumps (internal/server/client.go and  *)
(* its later revision), the websocket gateway HandleConnections (both the  *)
(* username-parameter revision and the token revision), and the account   *)
(* service: registration, login, tokens and public keys of                 *)
(* internal/auth/auth.go with its HTTP handlers and the browser client's   *)
(* key encoding.  Spec runs the relay; AuthSpec runs the account service   *)
(* and the gateway in front of it.                                         *)
(*                                                                         *)
(* Go channels: register, unregister and forward are unbuffered, so a send *)
(* and the Hub's receive are one joint step; a sender waiting on a channel *)
(* is a process position ("register", "unregister", "forward").  Each      *)
(* Client.send is a buffered channel: a sequence plus a closed flag.       *)
(* Closing a closed channel or sending on a closed channel panics, and an  *)
(* unrecovered panic in the Hub goroutine ends the process.                *)
(***************************************************************************)
EXTENDS Integers, Sequences, FiniteSets, TLC

\* ------------------------------------------------------------------ bounds
\* Sessions (Client objects) ever constructed in a run.
MaxSessions == 2
\* Capacity of Client.send; stands for make(chan *protocol.Message, 256).
QueueCap == 2
\* WebSocket objects the browser client constructs in a run.
MaxConnects == 8

\* ------------------------------------------------------------- value sets
Ids == {"alice", "bob"}
Sessions == 1..MaxSessions
NoSession == 0
AuthError == "AuthError"

\* A token string.  sig = "ok" means signed with jwtSecret; exp means the
\* ExpiresAt claim is in the past.
NoToken == [sub |-> "", sig |-> "none", exp |-> FALSE]
GoodToken(u) == [sub |-> u, sig |-> "ok", exp |-> FALSE]
ForgedToken(u) == [sub |-> u, sig |-> "forged", exp |-> FALSE]
ExpiredToken(u) == [sub |-> u, sig |-> "ok", exp |-> TRUE]

\* The Authorization header after strings.Split(authHeader, " "); <<>> is an
\* absent header.
NoHeader == << >>
Bearer(t) == <<[scheme |-> "Bearer"], t>>
Basic(t) == <<[scheme |-> "Basic"], t>>

\* An upgrade request to /ws: the token query parameter, the Authorization
\* header and the username query parameter.
Req(t, h, u) == [qtoken |-> t, header |-> h, qusername |-> u]
Requests ==
  {Req(NoToken, NoHeader, ""),
   Req(GoodToken("alice"), NoHeader, ""),
   Req(NoToken, Bearer(GoodToken("bob")), ""),
   Req(GoodToken("alice"), Bearer(GoodToken("bob")), "bob"),
   Req(ForgedToken("alice"), NoHeader, ""),
   Req(NoToken, Bearer(ExpiredToken("bob")), ""),
   Req(NoToken, Basic(GoodToken("alice")), ""),
   Req(NoToken, <<[scheme |-> "Bearer"]>>, ""),
   Req(NoToken, NoHeader, "alice"),
   Req(NoToken, NoHeader, "bob")}

\* A byte string: payload p base64-encoded lvl times (lvl = 0: p itself).
\* The payloads themselves are not valid base64 text.
Payloads == {"hi"}
NilBytes == [lvl |-> 0, p |-> ""]
DecodeFailed == [lvl |-> -1, p |-> ""]

\* The JSON value of the "content" member of an inbound frame.
Text(l, p) == [kind |-> "string", text |-> [lvl |-> l, p |-> p]]
Number == [kind |-> "number", text |-> NilBytes]

\* An inbound websocket frame: a JSON object, or bytes that are not JSON.
Frame(to, from, c) ==
  [json |-> TRUE, recipient |-> to, sender |-> from, content |-> c]
NotJSON ==
  [json |-> FALSE, recipient |-> "", sender |-> "", content |-> Number]
Frames ==
  {Frame("alice", "mallory", Text(1, "hi")),
   Frame("bob", "alice", Text(1, "hi")),
   Frame("alice", "alice", Text(0, "hi")),
   Frame("bob", "mallory", Number),
   NotJSON}

\* protocol.Message, with two history fields: claimed, the sender member of
\* the inbound frame the message was built from, and wire, the content
\* member of that frame.
NoMsg == [recipient |-> "", sender |-> "", content |-> NilBytes,
          claimed |-> "", wire |-> Number]

\* ---------------------------------------------------------- account values
\* Passwords a caller may type; "short" has fewer than 6 characters.
Passwords == {"", "short", "secret1", "secret2"}
Long(pw) == pw \in {"secret1", "secret2"}

\* bcrypt: the hash of pw, and the comparison of a hash with a password.
Hash(pw) == [bcrypt |-> pw]
CompareHashAndPassword(h, pw) == h = Hash(pw)

\* Key material (the bytes of an exported SPKI key) and its text encodings.
\* A base64 text of a key is not hex text; hex text read as base64 gives
\* other bytes.
KeyBytes == {"K1"}
NoKey == "nil"
BadText == "error"
HexText(b) == [enc |-> "hex", of |-> b]
Base64Text(b) == [enc |-> "base64", of |-> b]
EmptyText == [enc |-> "", of |-> ""]
KeyTexts ==
  {EmptyText} \cup {HexText(b) : b \in KeyBytes}
              \cup {Base64Text(b) : b \in KeyBytes}

\* hex.DecodeString
HexDecode(t) == IF t.enc = "hex" THEN t.of ELSE BadText

\* cryptoUtils.exportPublicKey: arrayBufferToBase64 of the exported key.
ExportPublicKey(b) == Base64Text(b)

\* cryptoUtils.base64ToArrayBuffer: atob, then the bytes.
Base64ToArrayBuffer(t) ==
  IF t.enc = "base64" THEN t.of
  ELSE IF t.enc = "hex" THEN "garbled"
  ELSE ""

\* A row of the users table (registered = FALSE: no row), with one history
\* field: submitted, the publicKey text of the registration request.
NoUser == [registered |-> FALSE, hash |-> Hash(""), publicKey |-> NoKey,
           submitted |-> EmptyText]

\* The token of part_001's HandleLogin, "token_" + username: not a JWT.
PlainToken(u) == [sub |-> u, sig |-> "none", exp |-> FALSE]

\* An HTTP response of an account handler: which handler answered, for
\* which username, the status and the token or key text of the body.
Resp(h, u, st, b) == [handler |-> h, user |-> u, status |-> st, body |-> b]
NoResp == Resp("", "", 0, EmptyText)

VARIABLES
  variant,   \* which revision of server.go/client.go runs: "param" | "token"
  nsess,     \* Clients constructed so far; Client s exists iff s <= nsess
  username,  \* Client.username
  authId,    \* history: ValidateToken of the credential of the request
  clients,   \* Hub.clients: identity -> Client, NoSession when absent
  sendq,     \* Client.send buffer
  closed,    \* Client.send closed
  conn,      \* Client.conn: "none" | "open" | "closed"
  gw,        \* HandleConnections position: "none"|"register"|"spawn"|"done"
  rp,        \* readPump position
  wp,        \* writePump position
  fwd,       \* the message readPump is sending on hub.forward
  crashed,   \* the Hub goroutine panicked
  lastHub,   \* history: what the latest Hub.Run iteration did
  closeFrame,\* history: writePump called WriteMessage(CloseMessage)
  users,     \* the users table of UserStorage
  issued,    \* history: the tokens HandleLogin has returned, and for whom
  resp,      \* the latest response of the account handlers
  reconnectAttempts, \* MeadowlarkApp.reconnectAttempts
  socket,    \* the state of MeadowlarkApp.socket: "none" | "connecting" |
             \* "open" | "closed"
  timer,     \* a setTimeout(connectWebSocket) is pending
  connects,  \* history: WebSocket objects constructed so far
  closes     \* history: onclose events since the latest onopen

vars == <<variant, nsess, username, authId, clients, sendq, closed, conn,
          gw, rp, wp, fwd, crashed, lastHub, closeFrame, users, issued,
          resp, reconnectAttempts, socket, timer, connects, closes>>

clientVars == <<reconnectAttempts, socket, timer, connects, closes>>

authVars == <<users, issued, resp>>

sessVars == <<nsess, username, authId, conn, gw>>
hubVars == <<clients, sendq, closed, crashed, lastHub>>

Exists(s) == s \in Sessions /\ s <= nsess

\* ------------------------------------------------------------- auth.go
\* ValidateToken: jwt.ParseWithClaims fails on a bad signature or an expired
\* token; otherwise the Username claim is returned.
ValidateToken(t) ==
  IF t.sig = "ok" /\ ~t.exp THEN t.sub ELSE AuthError

\* The token HandleConnections (token revision) extracts from the request.
RequestToken(req) ==
  IF req.qtoken # NoToken THEN req.qtoken
  ELSE IF req.header # << >> /\ Len(req.header) = 2
          /\ req.header[1].scheme = "Bearer"
       THEN req.header[2]
       ELSE NoToken

\* What validating the caller's credential yields (AuthError when missing).
Credential(req) ==
  IF RequestToken(req) = NoToken THEN AuthError
  ELSE ValidateToken(RequestToken(req))

\* The identity HandleConnections gives the Client, or AuthError when the
\* handler rejects the request.
GatewayIdentity(v, req) ==
  IF v = "token"
  THEN Credential(req)
  ELSE IF req.qusername = "" THEN AuthError ELSE req.qusername

\* GenerateToken signs a JWT that expires after 24 hours; part_001's
\* HandleLogin returns "token_" + username instead.
GenerateToken(u) == GoodToken(u)
LoginToken(v, u) == IF v = "token" THEN GenerateToken(u) ELSE PlainToken(u)

\* UserStorage.VerifyUser succeeds: the row exists and the hash matches.
VerifyUser(u, pw) ==
  /\ u \in Ids
  /\ users[u].registered
  /\ CompareHashAndPassword(users[u].hash, pw)

\* Mutant: the INSERT replaces an existing row.
RegisterError_Overwrite(u, pw, t) ==
  IF u = "" \/ pw = "" THEN "username and password cannot be empty"
  ELSE IF ~Long(pw) THEN "password must be at least 6 characters"
  ELSE IF t # EmptyText /\ HexDecode(t) = BadText
  THEN "invalid public key format"
  ELSE ""

\* The error of UserStorage.RegisterNewUser, "" when the row is inserted.
RegisterError(u, pw, t) ==
  IF u = "" \/ pw = "" THEN "username and password cannot be empty"
  ELSE IF ~Long(pw) THEN "password must be at least 6 characters"
  ELSE IF t # EmptyText /\ HexDecode(t) = BadText
  THEN "invalid public key format"
  ELSE IF users[u].registered THEN "username already exists"
  ELSE ""

\* The body of a successful GET /keys/{username}: base64 text in the token
\* revision, hex text in server.go.
EncodeKey(v, b) == IF v = "token" THEN Base64Text(b) ELSE HexText(b)

\* ------------------------------------------------------------- Init
Init ==
  /\ variant \in {"param", "token"}
  /\ nsess = 0
  /\ username = [s \in Sessions |-> ""]
  /\ authId = [s \in Sessions |-> ""]
  /\ clients = [u \in Ids |-> NoSession]
  /\ sendq = [s \in Sessions |-> << >>]
  /\ closed = [s \in Sessions |-> FALSE]
  /\ conn = [s \in Sessions |-> "none"]
  /\ gw = [s \in Sessions |-> "none"]
  /\ rp = [s \in Sessions |-> "none"]
  /\ wp = [s \in Sessions |-> "none"]
  /\ fwd = [s \in Sessions |-> NoMsg]
  /\ crashed = FALSE
  /\ lastHub = "none"
  /\ closeFrame = [s \in Sessions |-> FALSE]
  /\ users = [u \in Ids |-> NoUser]
  /\ issued = {}
  /\ resp = NoResp
  /\ reconnectAttempts = 0
  /\ socket = "none"
  /\ timer = FALSE
  /\ connects = 0
  /\ closes = 0

\* ------------------------------------------------------------- gateway
\* Server.HandleConnections up to and including the construction of the
\* Client; the handler then waits to send on hub.register.
HandleConnections(req, upgradeOk) ==
  /\ ~crashed
  /\ nsess < MaxSessions
  /\ LET id == GatewayIdentity(variant, req)
         s == nsess + 1
     IN IF id = AuthError
        THEN \* http.Error, return
             UNCHANGED <<sessVars>>
        ELSE IF ~upgradeOk
        THEN \* upgrader.Upgrade failed, return
             UNCHANGED <<sessVars>>
        ELSE /\ nsess' = s
             /\ username' = [username EXCEPT ![s] = id]
             /\ authId' = [authId EXCEPT ![s] = Credential(req)]
             /\ conn' = [conn EXCEPT ![s] = "open"]
             /\ gw' = [gw EXCEPT ![s] = "register"]
  /\ UNCHANGED <<authVars, clientVars, closeFrame, variant, hubVars, rp, wp,
                 fwd>>

\* Mutant: the pumps are started without waiting for the send on
\* hub.register to be taken.
PumpsMayStart_Early(s) == gw[s] \in {"register", "spawn"}

\* HandleConnections reaches its go statements only after its blocking send
\* on hub.register was taken by the Hub.
PumpsMayStart(s) == gw[s] = "spawn"

\* go client.writePump(); go client.readPump()
StartPumps(s) ==
  /\ ~crashed
  /\ Exists(s)
  /\ PumpsMayStart(s)
  /\ gw' = [gw EXCEPT ![s] = "done"]
  /\ wp' = [wp EXCEPT ![s] = "recv"]
  /\ rp' = [rp EXCEPT ![s] = "read"]
  /\ UNCHANGED <<authVars, clientVars, closeFrame, variant, nsess, username,
                 authId,
                 conn, hubVars, fwd>>

\* ------------------------------------------------------- account handlers
relayVars == <<variant, nsess, username, authId, clients, sendq, closed,
               conn, gw, rp, wp, fwd, crashed, lastHub, closeFrame>>

\* Server.HandleRegister: RegisterNewUser with the publicKey of the request.
HandleRegister(u, pw, t) ==
  /\ IF RegisterError(u, pw, t) # ""
     THEN /\ resp' = Resp("register", u, 400, EmptyText)
          /\ UNCHANGED users
     ELSE /\ users' = [users EXCEPT ![u] =
                         [registered |-> TRUE,
                          hash |-> Hash(pw),
                          publicKey |-> IF t = EmptyText THEN NoKey
                                        ELSE HexDecode(t),
                          submitted |-> t]]
          /\ resp' = Resp("register", u, 201, EmptyText)
  /\ UNCHANGED <<relayVars, clientVars, issued>>

\* Server.HandleLogin: 401 unless VerifyUser succeeds, else a token.
HandleLogin(u, pw) ==
  /\ IF VerifyUser(u, pw)
     THEN /\ issued' = issued \cup {[for |-> u,
                                     token |-> LoginToken(variant, u)]}
          /\ resp' = Resp("login", u, 200, LoginToken(variant, u))
     ELSE /\ resp' = Resp("login", u, 401, NoToken)
          /\ UNCHANGED issued
  /\ UNCHANGED <<relayVars, clientVars, users>>

\* The ExpiresAt of a token GenerateToken signed passes.
ExpireToken(e) ==
  /\ e \in issued
  /\ e.token.sig = "ok"
  /\ ~e.token.exp
  /\ issued' = (issued \ {e}) \cup {[e EXCEPT !.token.exp = TRUE]}
  /\ UNCHANGED <<relayVars, clientVars, users, resp>>

\* Server.HandleGetPublicKey: 404 when GetUserPublicKey fails (no row, or no
\* key), else the encoded key.
HandleGetPublicKey(u) ==
  /\ IF u \in Ids /\ users[u].registered /\ users[u].publicKey # NoKey
     THEN resp' = Resp("keys", u, 200, EncodeKey(variant, users[u].publicKey))
     ELSE resp' = Resp("keys", u, 404, EmptyText)
  /\ UNCHANGED <<relayVars, clientVars, users, issued>>

\* Mutant: any two-part Authorization header is taken for a bearer token.
AuthenticateRequest_AnyScheme(h) ==
  IF h = << >> THEN AuthError
  ELSE IF Len(h) # 2 THEN AuthError
  ELSE ValidateToken(h[2])

\* Server.authenticateRequest: the username of the token of a header of the
\* form "Bearer <token>", AuthError for anything else.
AuthenticateRequest(h) ==
  IF h = << >> THEN AuthError
  ELSE IF Len(h) # 2 \/ h[1].scheme # "Bearer" THEN AuthError
  ELSE ValidateToken(h[2])

\* UserStorage.GetAllUsers, as the body of a response.
UserList == [users |-> {u \in Ids : users[u].registered}]

Methods == {"GET", "POST"}
Headers ==
  {NoHeader, <<[scheme |-> "Bearer"]>>}
    \cup {Bearer(GoodToken(u)) : u \in Ids}
    \cup {Bearer(ExpiredToken("alice")), Bearer(ForgedToken("alice")),
          Basic(GoodToken("alice"))}

\* A caller holds only signed tokens that a login returned.
HeaderPresentable(h) ==
  \A i \in 2..Len(h) : h[i].sig = "ok" => \E e \in issued : e.token = h[i]

\* The handler of /api/users: 405 unless GET, 401 unless authenticateRequest
\* succeeds, else HandleGetUsers.  server.go has no such route: 404.
HandleUsers(method, h) ==
  /\ HeaderPresentable(h)
  /\ resp' = IF variant # "token" THEN Resp("users", "", 404, EmptyText)
             ELSE IF method # "GET" THEN Resp("users", "", 405, EmptyText)
             ELSE IF AuthenticateRequest(h) = AuthError
             THEN Resp("users", "", 401, EmptyText)
             ELSE Resp("users", AuthenticateRequest(h), 200, UserList)
  /\ UNCHANGED <<relayVars, clientVars, users, issued>>

\* The tokens a request carries.
TokensOf(req) ==
  {req.qtoken} \cup {req.header[i] : i \in 2..Len(req.header)}

\* A caller holds only signed tokens that a login returned (jwtSecret stays
\* on the server); anything else it can make up.
Presentable(req) ==
  \A t \in TokensOf(req) :
    t.sig = "ok" => \E e \in issued : e.token = t

\* A caller with its tokens opens /ws.
Connect(req, upgradeOk) ==
  /\ Presentable(req)
  /\ HandleConnections(req, upgradeOk)

AuthNext ==
  \/ \E u \in Ids \cup {""}, pw \in Passwords, t \in KeyTexts :
       HandleRegister(u, pw, t)
  \/ \E u \in Ids \cup {""}, pw \in Passwords : HandleLogin(u, pw)
  \/ \E e \in issued : ExpireToken(e)
  \/ \E u \in Ids \cup {""} : HandleGetPublicKey(u)
  \/ \E req \in Requests, ok \in BOOLEAN : Connect(req, ok)
  \/ \E method \in Methods, h \in Headers : HandleUsers(method, h)

\* The account service and the gateway, without the relay behind it.
AuthSpec == Init /\ [][AuthNext]_vars

\* ---------------------------------------------------------- browser client
\* this.maxReconnectAttempts = 5
MaxReconnectAttempts == 5

\* Mutant: the attempt that reaches the limit is not counted against it.
MayReconnect_OffByOne(n) == n <= MaxReconnectAttempts

\* attemptReconnect: this.reconnectAttempts < this.maxReconnectAttempts
MayReconnect(n) == n < MaxReconnectAttempts

\* connectWebSocket called by showApp, after login.
ShowApp ==
  /\ socket = "none"
  /\ connects < MaxConnects
  /\ socket' = "connecting"
  /\ connects' = connects + 1
  /\ UNCHANGED <<relayVars, authVars, reconnectAttempts, timer, closes>>

\* The timeout set by attemptReconnect fires: connectWebSocket.
TimerFires ==
  /\ timer
  /\ connects < MaxConnects
  /\ timer' = FALSE
  /\ socket' = "connecting"
  /\ connects' = connects + 1
  /\ UNCHANGED <<relayVars, authVars, reconnectAttempts, closes>>

\* socket.onopen
OnOpen ==
  /\ socket = "connecting"
  /\ socket' = "open"
  /\ reconnectAttempts' = 0
  /\ closes' = 0
  /\ UNCHANGED <<relayVars, authVars, timer, connects>>

\* socket.onclose, for a connection that failed or that had been open:
\* attemptReconnect.
OnClose ==
  /\ socket \in {"connecting", "open"}
  /\ socket' = "closed"
  /\ closes' = closes + 1
  /\ IF MayReconnect(reconnectAttempts)
     THEN /\ reconnectAttempts' = reconnectAttempts + 1
          /\ timer' = TRUE
     ELSE UNCHANGED <<reconnectAttempts, timer>>
  /\ UNCHANGED <<relayVars, authVars, connects>>

ClientNext == ShowApp \/ TimerFires \/ OnOpen \/ OnClose

\* The browser client and its socket.
ClientSpec == Init /\ [][ClientNext]_vars

\* ------------------------------------------------------------- read pump
\* encoding/json into a []byte member: a JSON string is base64-decoded (an
\* error when it is not base64), a number is an error.
UnmarshalBytes(c) ==
  IF c.kind = "string"
  THEN IF c.text.lvl >= 1
       THEN [lvl |-> c.text.lvl - 1, p |-> c.text.p]
       ELSE DecodeFailed
  ELSE DecodeFailed

\* The Content of the message readPump builds from a frame, or DecodeFailed
\* when the frame is dropped.  client.go unmarshals the frame into a
\* protocol.Message; the later revision takes a JSON string as raw bytes and
\* falls back to protocol.Message for any other JSON value.
DecodeContent(v, f) ==
  IF ~f.json THEN DecodeFailed
  ELSE IF v = "param" THEN UnmarshalBytes(f.content)
  ELSE IF f.content.kind = "string" THEN f.content.text
  ELSE UnmarshalBytes(f.content)

\* Mutant: the pump keeps the sender the frame claimed.
StampSender_KeepClaimed(s, claimed) == claimed

\* msg.Sender = c.username
StampSender(s, claimed) == username[s]

\* The message readPump hands to the Hub for a decoded frame.
BuildMessage(s, f) ==
  [recipient |-> f.recipient,
   sender |-> StampSender(s, f.sender),
   content |-> DecodeContent(variant, f),
   claimed |-> f.sender,
   wire |-> f.content]

\* Mutant: a frame that does not decode ends the read loop.
AfterDecodeError_Break == "unregister"

\* Where readPump goes after a frame that does not decode: continue (in
\* client.go the if err == nil body is skipped), back to ReadMessage.
AfterDecodeError == "read"

\* c.conn.ReadMessage() returns a frame.
ReadFrame(s, f) ==
  /\ ~crashed
  /\ Exists(s)
  /\ rp[s] = "read"
  /\ conn[s] = "open"
  /\ IF DecodeContent(variant, f) = DecodeFailed
     THEN /\ rp' = [rp EXCEPT ![s] = AfterDecodeError]
          /\ UNCHANGED fwd
     ELSE /\ fwd' = [fwd EXCEPT ![s] = BuildMessage(s, f)]
          /\ rp' = [rp EXCEPT ![s] = "forward"]
  /\ UNCHANGED <<authVars, clientVars, closeFrame, variant, sessVars,
                 hubVars, wp>>

\* Mutant: the deferred function closes the transport without unregistering.
AfterReadError_SkipUnregister == "close"

\* Where readPump goes after a read error: break, into the deferred
\* function, whose first statement sends c on hub.unregister.
AfterReadError == "unregister"

\* c.conn.ReadMessage() returns an error (peer closed, network failure, or
\* the connection was closed locally): break, then the deferred function
\* waits to send on hub.unregister.
ReadError(s) ==
  /\ ~crashed
  /\ Exists(s)
  /\ rp[s] = "read"
  /\ rp' = [rp EXCEPT ![s] = AfterReadError]
  /\ UNCHANGED <<authVars, clientVars, closeFrame, variant, sessVars,
                 hubVars, wp, fwd>>

\* The deferred c.conn.Close() of readPump, after hub.unregister took c.
ReadPumpClose(s) ==
  /\ ~crashed
  /\ Exists(s)
  /\ rp[s] = "close"
  /\ rp' = [rp EXCEPT ![s] = "done"]
  /\ conn' = [conn EXCEPT ![s] = "closed"]
  /\ UNCHANGED <<authVars, clientVars, closeFrame, variant, nsess, username,
                 authId,
                 gw, hubVars, wp, fwd>>

\* ------------------------------------------------------------- write pump
\* message, ok := <-c.send with a message; json.Marshal; WriteMessage.
\* A failed write ends the pump in the later revision (deferred Close);
\* client.go ignores the error and keeps looping.
WriteMessage(s, writeOk) ==
  /\ ~crashed
  /\ Exists(s)
  /\ wp[s] = "recv"
  /\ Len(sendq[s]) > 0
  /\ (writeOk => conn[s] = "open")
  /\ sendq' = [sendq EXCEPT ![s] = Tail(@)]
  /\ IF writeOk \/ variant = "param"
     THEN UNCHANGED <<wp, conn>>
     ELSE /\ wp' = [wp EXCEPT ![s] = "done"]
          /\ conn' = [conn EXCEPT ![s] = "closed"]
  /\ UNCHANGED <<authVars, clientVars, closeFrame, variant, nsess, username,
                 authId,
                 gw, clients, closed,
                 crashed, lastHub, rp, fwd>>

\* json.Marshal of a []byte member: the base64 text of the bytes.
MarshalBytes(b) == Text(b.lvl + 1, b.p)

\* The frame WriteMessage(s, TRUE) puts on the transport: json.Marshal of the
\* message at the head of c.send.
WrittenFrame(s) ==
  Frame(Head(sendq[s]).recipient, Head(sendq[s]).sender,
        MarshalBytes(Head(sendq[s]).content))

\* Mutant: a receive on a closed channel reports closed at once.
Drained_Always(q) == TRUE

\* A receive on a closed channel reports ok = false only when the buffer is
\* empty; until then it returns the buffered messages.
Drained(q) == Len(q) = 0

\* Mutant: after the close frame the pump goes back to receiving.
AfterCloseFrame_Loop == "recv"

\* Where writePump goes after the close frame: return.
AfterCloseFrame == "done"

\* <-c.send reports the channel closed and drained: close frame, return,
\* deferred c.conn.Close().
WriteClose(s) ==
  /\ ~crashed
  /\ Exists(s)
  /\ wp[s] = "recv"
  /\ Drained(sendq[s])
  /\ closed[s]
  /\ closeFrame' = [closeFrame EXCEPT ![s] = TRUE]
  /\ wp' = [wp EXCEPT ![s] = AfterCloseFrame]
  /\ conn' = [conn EXCEPT ![s] = "closed"]
  /\ UNCHANGED <<authVars, clientVars, variant, nsess, username, authId, gw,
                 hubVars, rp,
                 fwd>>

\* ------------------------------------------------------------- Hub.Run
\* Mutant: a lookup that misses falls back to some registered Client.
Lookup_Fallback(cl, name) ==
  IF cl[name] # NoSession THEN cl[name]
  ELSE LET reg == {u \in Ids : cl[u] # NoSession}
       IN IF reg = {} THEN NoSession ELSE cl[CHOOSE u \in reg : TRUE]

\* h.clients[name]; NoSession stands for ok = false.
Lookup(cl, name) == cl[name]

\* Mutant: the registry write is left for later.
RegisterEntry_Deferred(cl, s) == cl

\* h.clients[client.username] = client
RegisterEntry(cl, s) == [cl EXCEPT ![username[s]] = s]

\* Mutant: the delete is forgotten.
DeleteEntry_Forgotten(cl, name) == cl

\* delete(h.clients, name)
DeleteEntry(cl, name) == [cl EXCEPT ![name] = NoSession]

\* Mutant: the Hub puts the envelope at the front of the buffer.
Enqueue_AtFront(q, m) == <<m>> \o q

\* Mutant: the Hub enqueues the envelope without its content.
Enqueue_DropContent(q, m) == Append(q, [m EXCEPT !.content = NilBytes])

\* recipient.send <- message, when the buffer has room
Enqueue(q, m) == Append(q, m)

\* Mutant: the send is tried on a full buffer too.
HasRoom_OffByOne(q) == Len(q) <= QueueCap

\* The select's send case is ready: the buffer is below its capacity.
HasRoom(q) == Len(q) < QueueCap

\* case client := <-h.register
HubRegister(s) ==
  /\ ~crashed
  /\ Exists(s)
  /\ gw[s] = "register"
  /\ clients' = RegisterEntry(clients, s)
  /\ gw' = [gw EXCEPT ![s] = "spawn"]
  /\ lastHub' = "register"
  /\ UNCHANGED <<authVars, clientVars, closeFrame, variant, nsess, username,
                 authId,
                 conn, sendq, closed,
                 crashed, rp, wp, fwd>>

\* case client := <-h.unregister
HubUnregister(s) ==
  /\ ~crashed
  /\ Exists(s)
  /\ rp[s] = "unregister"
  /\ rp' = [rp EXCEPT ![s] = "close"]
  /\ IF Lookup(clients, username[s]) # NoSession
     THEN /\ clients' = DeleteEntry(clients, username[s])
          /\ IF closed[s]
             THEN \* close of closed channel
                  /\ crashed' = TRUE
                  /\ lastHub' = "panic"
                  /\ UNCHANGED closed
             ELSE /\ closed' = [closed EXCEPT ![s] = TRUE]
                  /\ lastHub' = "unregister"
                  /\ UNCHANGED crashed
     ELSE /\ lastHub' = "unregister_absent"
          /\ UNCHANGED <<clients, closed, crashed>>
  /\ UNCHANGED <<authVars, clientVars, closeFrame, variant, sessVars, sendq,
                 wp, fwd>>

\* case message := <-h.forward
HubForward(s) ==
  /\ ~crashed
  /\ Exists(s)
  /\ rp[s] = "forward"
  /\ rp' = [rp EXCEPT ![s] = "read"]
  /\ fwd' = [fwd EXCEPT ![s] = NoMsg]
  /\ LET m == fwd[s]
         r == Lookup(clients, m.recipient)
     IN IF r = NoSession
        THEN /\ lastHub' = "miss"
             /\ UNCHANGED <<clients, sendq, closed, crashed>>
        ELSE IF closed[r]
        THEN \* send on closed channel
             /\ crashed' = TRUE
             /\ lastHub' = "panic"
             /\ UNCHANGED <<clients, sendq, closed>>
        ELSE IF HasRoom(sendq[r])
        THEN /\ sendq' = [sendq EXCEPT ![r] = Enqueue(@, m)]
             /\ lastHub' = "deliver"
             /\ UNCHANGED <<clients, closed, crashed>>
        ELSE /\ closed' = [closed EXCEPT ![r] = TRUE]
             /\ clients' = DeleteEntry(clients, username[r])
             /\ lastHub' = "evict"
             /\ UNCHANGED <<sendq, crashed>>
  /\ UNCHANGED <<authVars, clientVars, closeFrame, variant, sessVars, wp>>

\* ------------------------------------------------------------- spec
Next ==
  \/ \E req \in Requests, ok \in BOOLEAN : HandleConnections(req, ok)
  \/ \E s \in Sessions : StartPumps(s)
  \/ \E s \in Sessions, f \in Frames : ReadFrame(s, f)
  \/ \E s \in Sessions : ReadError(s)
  \/ \E s \in Sessions : ReadPumpClose(s)
  \/ \E s \in Sessions, ok \in BOOLEAN : WriteMessage(s, ok)
  \/ \E s \in Sessions : WriteClose(s)
  \/ \E s \in Sessions : HubRegister(s)
  \/ \E s \in Sessions : HubUnregister(s)
  \/ \E s \in Sessions : HubForward(s)

Spec == Init /\ [][Next]_vars

\* ------------------------------------------------------------- claims
\* Every message held by a read pump or buffered in a Client.send.
Envelopes ==
  {fwd[s] : s \in {x \in Sessions : rp[x] = "forward"}}
  \cup UNION {{sendq[s][i] : i \in 1..Len(sendq[s])} : s \in Sessions}

Last(q) == q[Len(q)]
Front(q) == SubSeq(q, 1, Len(q) - 1)

\* The Client a Forward from s is routed to (NoSession: none registered).
Recipient(s) == clients[fwd[s].recipient]

\* C1 (as claimed): an Unregister(s) processed while the registry entry for
\* s's identity is absent or is another Client leaves the registry unchanged.
C1_StaleUnregister ==
  [][\A s \in Sessions :
       (HubUnregister(s) /\ clients[username[s]] # s) => clients' = clients]_vars

\* C2 (as claimed): a Register(s2) processed while the registry holds another
\* Client s1 for the same identity leaves s2 as the entry and s1's send
\* channel closed.
C2_ReplaceOnRegister ==
  [][\A s \in Sessions :
       (HubRegister(s) /\ clients[username[s]] \notin {NoSession, s})
         => /\ clients'[username[s]] = s
            /\ closed'[clients[username[s]]]]_vars

\* C3: every message a read pump hands to the Hub carries the identity of
\* that pump's Client as sender, every message the Hub enqueues carries the
\* identity of the Client whose pump forwarded it, and no buffered message
\* carries a sender that is not the identity of a constructed Client,
\* whatever sender the frame claimed.
C3_SenderStamping ==
  /\ [](\A s \in Sessions : rp[s] = "forward" => fwd[s].sender = username[s])
  /\ [](\A m \in Envelopes : \E s \in Sessions : Exists(s) /\ m.sender = username[s])
  /\ [][\A s, r \in Sessions :
          (HubForward(s) /\ sendq'[r] # sendq[r])
            => Last(sendq'[r]).sender = username[s]]_vars

\* C3 witness: a buffered message whose frame claimed another sender than the
\* one it now carries.
C3_Witness ==
  \E s \in Sessions : \E i \in 1..Len(sendq[s]) :
    /\ sendq[s][i].claimed = "mallory"
    /\ sendq[s][i].sender \in Ids

\* C4: a Forward whose recipient is registered with room in its buffer
\* appends exactly one message to that Client's buffer, with the recipient
\* and content the read pump decoded; no other buffer and no registry entry
\* changes.
C4_Delivery ==
  [][\A s \in Sessions :
       (/\ HubForward(s)
        /\ Recipient(s) # NoSession
        /\ Len(sendq[Recipient(s)]) < QueueCap)
         => LET r == Recipient(s)
            IN /\ Len(sendq'[r]) = Len(sendq[r]) + 1
               /\ Front(sendq'[r]) = sendq[r]
               /\ Last(sendq'[r]).recipient = fwd[s].recipient
               /\ Last(sendq'[r]).content = fwd[s].content
               /\ \A o \in Sessions \ {r} : sendq'[o] = sendq[o]
               /\ clients' = clients]_vars

\* C4 witness: the Hub has just delivered, and a buffer holds a message
\* addressed to its Client with decoded content.
C4_Witness ==
  /\ lastHub = "deliver"
  /\ \E s \in Sessions :
       /\ Len(sendq[s]) > 0
       /\ Last(sendq[s]).recipient = username[s]
       /\ Last(sendq[s]).content.p = "hi"

C6_RouteMiss ==
  [][\A s \in Sessions :
       (HubForward(s) /\ Recipient(s) = NoSession)
         => /\ UNCHANGED <<clients, sendq, closed, conn, wp, crashed>>
            /\ rp' = [rp EXCEPT ![s] = "read"]]_vars

\* C6 witness: the Hub has just dropped a message for an absent recipient.
C6_Witness ==
  /\ lastHub = "miss"
  /\ \E s \in Sessions : rp[s] = "read" /\ \E u \in Ids : clients[u] = NoSession

\* A Client that was registered, whose pumps both run and whose send channel
\* is open.
Live(s) ==
  /\ Exists(s)
  /\ gw[s] = "done"
  /\ ~closed[s]
  /\ wp[s] = "recv"
  /\ rp[s] \in {"read", "forward"}

\* C7 (as claimed): every registry key maps to a Client of that identity, and
\* no identity has two live Clients.
C7_RegistryInvariant ==
  /\ \A u \in Ids : clients[u] # NoSession => username[clients[u]] = u
  /\ \A s1, s2 \in Sessions :
       (s1 # s2 /\ Live(s1) /\ Live(s2)) => username[s1] # username[s2]

\* C8 (as claimed): no Client exists for a request whose credential is
\* missing or fails validation.
C8_GatewayRejection ==
  \A s \in Sessions : Exists(s) => authId[s] # AuthError

\* C9 (as claimed): the identity of every registered Client is the identity
\* that validating the request's credential returned, and it never changes.
C9_IdentityProvenance ==
  /\ [](\A s \in Sessions :
          (Exists(s) /\ gw[s] \in {"spawn", "done"}) => username[s] = authId[s])
  /\ [][\A s \in Sessions : Exists(s) => username'[s] = username[s]]_vars

\* C10 (as claimed): after taking any Register, Unregister or Forward event
\* the Hub is back in its receiving state.
C10_HubLiveness ==
  [][\A s \in Sessions :
       (HubRegister(s) \/ HubUnregister(s) \/ HubForward(s)) => ~crashed']_vars

\* A step of Client s that a failure of its transport causes: the read
\* error, the Unregister it leads to, the pumps' closes and a failed write.
FailureStep(s) ==
  \/ ReadError(s)
  \/ HubUnregister(s)
  \/ ReadPumpClose(s)
  \/ WriteMessage(s, FALSE)
  \/ WriteClose(s)

\* C11 (as claimed): no step that a transport failure of one Client causes
\* changes the registry entry, the buffer, the closed flag, the transport or
\* a pump of any other Client, and none stops the Hub.
C11_TransportErrorIsolation ==
  [][\A s \in Sessions :
       FailureStep(s)
         => /\ \A o \in Sessions \ {s} :
                 Exists(o)
                   => /\ clients[username[o]] = o
                           => clients'[username[o]] = o
                      /\ sendq'[o] = sendq[o]
                      /\ closed'[o] = closed[o]
                      /\ conn'[o] = conn[o]
                      /\ rp'[o] = rp[o]
                      /\ wp'[o] = wp[o]
            /\ ~crashed']_vars

\* C12 (as claimed), in the form a finite run can refute: a Client whose
\* read pump has exited is not the registry's entry, its transport is closed
\* and its buffer is closed.  A Client whose read pump has exited is never
\* registered again and sends no further Unregister, so a buffer still open
\* then stays open, and the write pump waits on it for ever.
C12_FullTeardown ==
  \A s \in Sessions :
    rp[s] = "done"
      => /\ clients[username[s]] # s
         /\ conn[s] = "closed"
         /\ closed[s]

\* C13: the Hub puts a forwarded message at the tail of the recipient's
\* buffer and changes the order of no buffer; the write pump takes the
\* message at the head; and a buffer only ever changes by losing its head or
\* gaining a tail, so messages leave a buffer in the order the Hub processed
\* their Forwards.
C13_HubArrivalOrder ==
  /\ [][\A s, r \in Sessions :
          HubForward(s)
            => \/ sendq'[r] = sendq[r]
               \/ sendq'[r] = Append(sendq[r], fwd[s])]_vars
  /\ [][\A s \in Sessions : \A ok \in BOOLEAN :
          WriteMessage(s, ok)
            => /\ sendq'[s] = Tail(sendq[s])
               /\ \A o \in Sessions \ {s} : sendq'[o] = sendq[o]]_vars
  /\ [][\A r \in Sessions :
          sendq'[r] # sendq[r]
            => \/ sendq[r] # << >> /\ sendq'[r] = Tail(sendq[r])
               \/ Front(sendq'[r]) = sendq[r]]_vars

\* C13 witness: a buffer holds two different messages, the later one from
\* the Hub's latest delivery.
C13_Witness ==
  /\ lastHub = "deliver"
  /\ \E r \in Sessions :
       /\ Len(sendq[r]) = 2
       /\ sendq[r][1] # sendq[r][2]

\* C14: reading a frame that does not decode changes nothing but leaves the
\* pump reading: no message is handed to the Hub, no Unregister is pending,
\* the transport stays as it is; and a frame that decodes is handed to the
\* Hub whatever was dropped before it.
C14_DecodeErrorLocal ==
  /\ [][\A s \in Sessions : \A f \in Frames :
          (ReadFrame(s, f) /\ DecodeContent(variant, f) = DecodeFailed)
            => /\ rp'[s] = "read"
               /\ fwd' = fwd
               /\ conn' = conn
               /\ UNCHANGED <<clients, sendq, closed, wp, crashed>>]_vars
  /\ [][\A s \in Sessions : \A f \in Frames :
          (ReadFrame(s, f) /\ DecodeContent(variant, f) # DecodeFailed)
            => /\ rp'[s] = "forward"
               /\ fwd'[s] = BuildMessage(s, f)]_vars
  /\ [](\A s \in Sessions :
          (rp[s] = "read" /\ conn[s] = "open" /\ ~crashed)
            => \A f \in Frames : ENABLED ReadFrame(s, f))

\* C14 witness: a read pump is reading on an open transport, with a frame
\* that does not decode and a frame that decodes both possible next; the
\* drop leaves this very state.
C14_Witness ==
  \E s \in Sessions :
    /\ rp[s] = "read"
    /\ conn[s] = "open"
    /\ ~crashed
    /\ \E f \in Frames :
         f.json /\ DecodeContent(variant, f) = DecodeFailed
    /\ \E f \in Frames : DecodeContent(variant, f) # DecodeFailed

\* C15: a read error takes the read pump out of its loop to wait on
\* hub.unregister; from there it only moves on when the Hub takes its
\* Unregister, which happens once, then closes the transport and is done for
\* good; a pump that left its loop holds no message for the Hub.
C15_ReadPumpExit ==
  /\ [][\A s \in Sessions : ReadError(s) => rp'[s] = "unregister"]_vars
  /\ [][\A s \in Sessions :
          rp[s] = "unregister"
            => \/ rp'[s] = "unregister"
               \/ rp'[s] = "close" /\ HubUnregister(s)]_vars
  /\ [][\A s \in Sessions :
          HubUnregister(s) => rp[s] = "unregister" /\ rp'[s] = "close"]_vars
  /\ [][\A s \in Sessions :
          rp[s] = "close"
            => \/ rp'[s] = "close"
               \/ rp'[s] = "done" /\ conn'[s] = "closed"]_vars
  /\ [][\A s \in Sessions : rp[s] = "done" => rp'[s] = "done"]_vars
  /\ [](\A s \in Sessions :
          rp[s] \in {"unregister", "close", "done"} => fwd[s] = NoMsg)
  /\ [](\A s \in Sessions : rp[s] = "done" => conn[s] = "closed")

\* C15 witness: a read pump has gone through its whole exit.
C15_Witness ==
  \E s \in Sessions :
    /\ rp[s] = "done"
    /\ conn[s] = "closed"
    /\ lastHub \in {"unregister", "unregister_absent"}

\* C16 (as claimed): a failed write of a dequeued message ends the write
\* pump and closes the transport.
C16_WriteFailureFatal ==
  [][\A s \in Sessions :
       WriteMessage(s, FALSE)
         => /\ wp'[s] = "done"
            /\ conn'[s] = "closed"]_vars

\* C17: a write pump that finds its buffer closed and drained sends the
\* close frame, which it had not sent before, closes the transport and
\* exits; after the close frame it stays exited, its buffer is never read
\* again, and the close frame is only ever sent on a closed buffer.
C17_WritePumpCancellation ==
  /\ [][\A s \in Sessions :
          WriteClose(s)
            => /\ ~closeFrame[s]
               /\ closeFrame'[s]
               /\ conn'[s] = "closed"
               /\ wp'[s] = "done"]_vars
  /\ [][\A s \in Sessions :
          closeFrame[s]
            => /\ closeFrame'[s]
               /\ wp'[s] = "done"
               /\ sendq'[s] = sendq[s]]_vars
  /\ [](\A s \in Sessions :
          closeFrame[s]
            => closed[s] /\ wp[s] = "done" /\ conn[s] = "closed")

\* C17 witness: a write pump has sent its close frame and exited.
C17_Witness ==
  \E s \in Sessions :
    /\ closeFrame[s]
    /\ wp[s] = "done"
    /\ conn[s] = "closed"

\* C18 (as claimed): the content member of every frame a write pump writes
\* is the content member of the frame the sender submitted.
C18_WirePayloadRoundTrip ==
  [][\A s \in Sessions :
       WriteMessage(s, TRUE)
         => WrittenFrame(s).content = Head(sendq[s]).wire]_vars

\* C19 (as claimed): every Client the gateway constructs is for an identity
\* a login returned a token for; validating an unexpired token a login
\* returned for u yields u; a login whose verification fails returns no
\* token; and a token is only ever returned by a login whose verification
\* succeeded.
C19_LoginGatedSessions ==
  /\ [](\A s \in Sessions :
          Exists(s) => \E e \in issued : e.for = username[s])
  /\ [](\A e \in issued :
          ~e.token.exp => ValidateToken(e.token) = e.for)
  /\ [][\A u \in Ids \cup {""} : \A pw \in Passwords :
          (HandleLogin(u, pw) /\ ~VerifyUser(u, pw))
            => /\ issued' = issued
               /\ resp'.status = 401
               /\ resp'.body = NoToken]_vars
  /\ [][\A e \in issued' :
          (e \notin issued /\ ~e.token.exp)
            => \E pw \in Passwords :
                 VerifyUser(e.for, pw) /\ HandleLogin(e.for, pw)]_vars

\* C20 (as claimed): a registration of a new username with a valid password
\* and the public key text the client exported is accepted, and the key text
\* GET /keys returns for a username registered with such a text decodes, at
\* the client, to the key bytes that were exported.
C20_PublicKeyRoundTrip ==
  /\ [][\A u \in Ids : \A pw \in Passwords : \A b \in KeyBytes :
          (/\ HandleRegister(u, pw, ExportPublicKey(b))
           /\ Long(pw)
           /\ ~users[u].registered)
            => /\ users'[u].registered
               /\ resp'.status = 201]_vars
  /\ [](\A b \in KeyBytes :
          (/\ resp.handler = "keys"
           /\ resp.status = 200
           /\ users[resp.user].submitted = ExportPublicKey(b))
            => Base64ToArrayBuffer(resp.body) = b)

\* C21: /api/users answers with the user list only to a GET whose
\* Authorization header is "Bearer <token>" with a token that validates;
\* every other request gets an error status and no list, and no request
\* changes the store.
C21_UsersRequiresBearer ==
  /\ [][\A method \in Methods : \A h \in Headers :
          HandleUsers(method, h)
            => /\ resp'.handler = "users"
               /\ IF /\ variant = "token"
                     /\ method = "GET"
                     /\ Len(h) = 2
                     /\ h[1].scheme = "Bearer"
                     /\ ValidateToken(h[2]) # AuthError
                  THEN /\ resp'.status = 200
                       /\ resp'.body = UserList
                  ELSE /\ resp'.status \in {401, 404, 405}
                       /\ resp'.body = EmptyText
               /\ users' = users]_vars
  /\ [](resp.handler = "users" /\ resp.status = 200
          => \E e \in issued : e.for = resp.user /\ e.token.sig = "ok")

\* C21 witness: the list was returned, with a registered user in it, to a
\* caller whose token a login had returned.
C21_Witness ==
  /\ resp.handler = "users"
  /\ resp.status = 200
  /\ resp.body.users # {}
  /\ resp.user \in Ids

\* C22 (as claimed): the Hub closes the send channel of a Client only while
\* it is open.
C22_NoDoubleClose ==
  [][\A s \in Sessions :
       (HubUnregister(s) /\ Lookup(clients, username[s]) # NoSession)
         => ~closed[s]]_vars

\* C23: every Client the registry holds has an open send channel, so no
\* Forward meets a closed channel.
C23_NoSendOnClosed ==
  /\ [](\A u \in Ids : clients[u] # NoSession => ~closed[clients[u]])
  /\ [][\A s \in Sessions :
          (HubForward(s) /\ Recipient(s) # NoSession)
            => ~closed[Recipient(s)] /\ lastHub' # "panic"]_vars

\* C23 witness: one Client's channel has been closed while the registry
\* holds another Client, to which a Forward is pending.
C23_Witness ==
  \E s, r, x \in Sessions :
    /\ closed[s]
    /\ rp[x] = "forward"
    /\ Recipient(x) = r
    /\ r # s

\* C24: no buffer ever holds more than QueueCap messages; a Forward to a
\* registered recipient appends one message exactly when the buffer is below
\* QueueCap, and closes the channel, leaving the buffer as it is, exactly
\* when the buffer holds QueueCap.
C24_QueueBound ==
  /\ [](\A s \in Sessions : Len(sendq[s]) \in 0..QueueCap)
  /\ [][\A s \in Sessions :
          (HubForward(s) /\ Recipient(s) # NoSession)
            => LET r == Recipient(s)
               IN /\ Len(sendq[r]) < QueueCap
                       <=> Len(sendq'[r]) = Len(sendq[r]) + 1
                  /\ Len(sendq[r]) = QueueCap
                       <=> (closed'[r] /\ ~closed[r] /\ sendq'[r] = sendq[r])
       ]_vars

\* C24 witness: the Hub's latest delivery filled a buffer to QueueCap.
C24_Witness ==
  /\ lastHub = "deliver"
  /\ \E r \in Sessions : Len(sendq[r]) = QueueCap /\ ~closed[r]

\* A step of the Hub loop.
HubStep ==
  \E s \in Sessions : HubRegister(s) \/ HubUnregister(s) \/ HubForward(s)

\* C25: the registry changes only in steps of the Hub; no step of the
\* gateway or of a pump changes it; and each Hub step leaves the registry
\* with that event's update done: the registered Client stored, the
\* unregistered identity absent, a Forward changing at most the evicted
\* recipient's entry.
C25_SingleWriter ==
  /\ [][clients' # clients => HubStep]_vars
  /\ [][\A s \in Sessions :
          (\/ StartPumps(s)
           \/ ReadError(s)
           \/ ReadPumpClose(s)
           \/ WriteClose(s)
           \/ \E f \in Frames : ReadFrame(s, f)
           \/ \E ok \in BOOLEAN : WriteMessage(s, ok))
            => clients' = clients]_vars
  /\ [][\A req \in Requests : \A ok \in BOOLEAN :
          HandleConnections(req, ok) => clients' = clients]_vars
  /\ [][\A s \in Sessions :
          HubRegister(s)
            => clients' = [clients EXCEPT ![username[s]] = s]]_vars
  /\ [][\A s \in Sessions :
          HubUnregister(s) => clients'[username[s]] = NoSession]_vars
  /\ [][\A s \in Sessions :
          HubForward(s)
            => \A u \in Ids :
                 clients'[u] # clients[u]
                   => /\ u = fwd[s].recipient
                      /\ clients'[u] = NoSession]_vars

\* C25 witness: the registry holds a Client whose pumps have both moved.
C25_Witness ==
  \E s \in Sessions :
    /\ Exists(s)
    /\ clients[username[s]] = s
    /\ rp[s] = "forward"
    /\ wp[s] = "recv"
    /\ Len(sendq[s]) > 0

\* C26: a pump runs only for a Client whose Register the Hub has taken; the
\* pumps are started from the position after that Register; a Client is
\* offered to Register once and never again; the Hub takes a Forward or an
\* Unregister of a Client only after its Register; and after its Unregister
\* was taken a Client never offers another.
C26_SessionEventOrder ==
  /\ [](\A s \in Sessions :
          (rp[s] # "none" \/ wp[s] # "none") => gw[s] = "done")
  /\ [][\A s \in Sessions : StartPumps(s) => gw[s] = "spawn"]_vars
  /\ [][\A s \in Sessions :
          HubRegister(s) => gw[s] = "register" /\ gw'[s] = "spawn"]_vars
  /\ [][\A s \in Sessions :
          gw[s] \in {"spawn", "done"} => gw'[s] \in {"spawn", "done"}]_vars
  /\ [][\A s \in Sessions :
          (HubForward(s) \/ HubUnregister(s)) => gw[s] = "done"]_vars
  /\ [][\A s \in Sessions :
          rp[s] \in {"close", "done"} => rp'[s] \in {"close", "done"}]_vars

\* C26 witness: a Client went through Register, the start of its pumps and
\* Unregister, in that order, and its identity is now absent.
C26_Witness ==
  \E s \in Sessions :
    /\ gw[s] = "done"
    /\ rp[s] = "close"
    /\ clients[username[s]] = NoSession
    /\ lastHub = "unregister"

\* C27 (as claimed): the Hub enqueues a message only when the Client whose
\* read pump forwarded it is the registry's entry for its identity.
C27_OnlyCurrentSessionsRoute ==
  [][\A s \in Sessions :
       (HubForward(s) /\ \E r \in Sessions : sendq'[r] # sendq[r])
         => clients[username[s]] = s]_vars

\* C28: the close frame is sent only on a closed and empty buffer; closing
\* a channel leaves its buffer as it is; and a closed channel's buffer
\* changes only by the write pump taking its head.
C28_DrainBeforeClose ==
  /\ [][\A s \in Sessions :
          WriteClose(s) => closed[s] /\ Len(sendq[s]) = 0]_vars
  /\ [][\A s \in Sessions :
          (~closed[s] /\ closed'[s]) => sendq'[s] = sendq[s]]_vars
  /\ [][\A s \in Sessions :
          (closed[s] /\ sendq'[s] # sendq[s])
            => /\ \E ok \in BOOLEAN : WriteMessage(s, ok)
               /\ sendq'[s] = Tail(sendq[s])]_vars
  /\ [](\A s \in Sessions : closeFrame[s] => Len(sendq[s]) = 0)

\* C28 witness: a channel is closed with messages still buffered, and its
\* write pump is there to take them.
C28_Witness ==
  \E s \in Sessions :
    /\ closed[s]
    /\ Len(sendq[s]) > 0
    /\ wp[s] = "recv"
    /\ conn[s] = "open"

\* C29 (as claimed): the counter stays in 0..5, an open resets it, a close
\* schedules a reconnect and counts it only below 5, and once 5 closes have
\* followed one another without an open no WebSocket is constructed.
C29_BoundedReconnect ==
  /\ [](reconnectAttempts \in 0..MaxReconnectAttempts)
  /\ [][OnOpen => reconnectAttempts' = 0]_vars
  /\ [][OnClose
          => IF reconnectAttempts < MaxReconnectAttempts
             THEN reconnectAttempts' = reconnectAttempts + 1 /\ timer'
             ELSE reconnectAttempts' = reconnectAttempts /\ ~timer']_vars
  /\ [][closes >= MaxReconnectAttempts => connects' = connects]_vars

\* C29 (amended): the counter stays in 0..5, an open resets it, a close
\* schedules a reconnect and counts it only below 5; a WebSocket is
\* constructed only after at most 5 closes in a row, at most 6 closes follow
\* one another, and after the 6th nothing is scheduled.
C29_BoundedReconnectAmended ==
  /\ [](reconnectAttempts \in 0..MaxReconnectAttempts)
  /\ [][OnOpen => reconnectAttempts' = 0]_vars
  /\ [][OnClose
          => IF reconnectAttempts < MaxReconnectAttempts
             THEN reconnectAttempts' = reconnectAttempts + 1 /\ timer'
             ELSE reconnectAttempts' = reconnectAttempts /\ ~timer']_vars
  /\ [][connects' # connects => closes <= MaxReconnectAttempts]_vars
  /\ [](closes <= MaxReconnectAttempts + 1)
  /\ [](closes = MaxReconnectAttempts + 1 => ~timer /\ socket = "closed")

\* C29 witness: the 6th close in a row has happened and nothing is pending.
C29_Witness ==
  /\ closes = MaxReconnectAttempts + 1
  /\ reconnectAttempts = MaxReconnectAttempts
  /\ ~timer
  /\ socket = "closed"

====
